---- MODULE Spec2Model ----
(***************************************************************************)
(* Model of build_dataset/qa_builder.py: the synthetic QA instruction      *)
(* builder.  main() checks the credential, runs process_one() total_num    *)
(* times, each of which samples template variables, builds a priming       *)
(* context and calls the model through the retrying wrapper call_gpt4o,    *)
(* and finally writes the collected records to the output file.            *)
(*                                                                         *)
(* Text is modelled as a sequence of string pieces (its concatenation is   *)
(* the Python string), so that template filling and replacement are        *)
(* computed, not assumed.                                                  *)
(***************************************************************************)
EXTENDS Integers, Sequences, FiniteSets, TLC

----------------------------------------------------------------------------
(* Bounds of the model *)

\* largest --total_num explored (the smallest is -1)
MaxTotal == 2

----------------------------------------------------------------------------
(* Environment of the run *)

\* value os.getenv returns for a variable that is not set
None == "<None>"

\* possible values of os.getenv("OPENAI_API_KEY"): unset, empty, set
Credentials == {None, "", "sk-test"}

\* completion texts the endpoint may return (one with trailing whitespace)
Texts == {"<thoughts> t <actions> [] <values> v", "<thoughts> t <actions> [] <values> v\n"}

\* variant: the wrapper retrying on every exception
RetriedAny == {"RateLimitError", "APIError"}

\* the exception class the wrapper retries on: openai.error.RateLimitError
RetriedErrors == {"RateLimitError"}

\* exceptions openai.ChatCompletion.create may raise
EndpointErrors == {"RateLimitError", "APIError"}

----------------------------------------------------------------------------
(* Module-level constants of qa_builder.py *)

L(s) == [kind |-> "lit", text |-> s]
P(s) == [kind |-> "ph", text |-> s]

system_message == <<"You're a clinical question-answering assistant powered by the PMC-LLaMA model. [...]">>

user_templates ==
  << <<L("What are the primary risk factors for "), P("disease"), L("?")>>,
     <<L("How does "), P("drug"), L(" work to treat "), P("condition"), L("?")>>,
     <<L("What is the long-term prognosis of a patient with "), P("condition"), L("?")>> >>

\* "<question>" and "<value>" are the two markers replaced in process_one
assistant_template ==
  <<"Question: ", "<question>",
    "\n\nAnswer:\n\n<thoughts> I will search PubMed via PMC-LLaMA to gather authoritative sources.\n\n<actions> [{'tool name':'PMC-LLaMA','tool params':{'query':'",
    "<question>", "'}}]\n\n<values> ", "<value>", "\n">>

\* variant: one try more than the decorator is given
TriesOneMore == 3 + 1

\* @retry(..., tries=3, delay=2, backoff=2)
Tries == 3

Delay == 2

\* variant: a constant delay
BackoffNone == 2 - 1

Backoff == 2

\* variant: one warm-up exchange fewer
WarmUpsFewer == 3 - 1

\* for _ in range(3)
WarmUps == 3

----------------------------------------------------------------------------
(* Pure functions *)

\* variant: a drug outside the pool
sample_varsWide ==
  [disease : {"diabetes", "hypertension", "COPD"},
   drug : {"aspirin", "metformin", "lisinopril", "ibuprofen"},
   condition : {"heart failure", "asthma", "chronic kidney disease"}]

\* every result sample_vars() can return: one independent draw per pool
sample_vars ==
  [disease : {"diabetes", "hypertension", "COPD"},
   drug : {"aspirin", "metformin", "lisinopril"},
   condition : {"heart failure", "asthma", "chronic kidney disease"}]

\* template.format(**vars): each placeholder becomes the value of its name
Format(t, v) ==
  [k \in 1..Len(t) |-> IF t[k].kind = "ph" THEN v[t[k].text] ELSE t[k].text]

RECURSIVE Replace(_, _, _)
\* s.replace(marker, by) on piece sequences: by is spliced in for each marker
Replace(s, marker, by) ==
  IF s = <<>> THEN <<>>
  ELSE (IF Head(s) = marker THEN by ELSE <<Head(s)>>) \o Replace(Tail(s), marker, by)

\* assistant_template.replace("<question>", question).replace("<value>", "...")
\* ("..." stands for the one-character ellipsis U+2026 of the source)
AssistantShot(question) ==
  Replace(Replace(assistant_template, "<question>", question), "<value>", <<"...">>)

Msg(r, c) == [role |-> r, content |-> c]

\* the two messages one warm-up iteration appends
WarmUp(question) ==
  <<Msg("user", question), Msg("assistant", AssistantShot(question))>>

RECURSIVE WarmUpMessages(_, _, _)
\* the messages appended by warm-up iterations k..WarmUps, the template of
\* iteration j being user_templates[ts[j]]
WarmUpMessages(v, ts, k) ==
  IF k > WarmUps THEN <<>>
  ELSE WarmUp(Format(user_templates[ts[k]], v)) \o WarmUpMessages(v, ts, k + 1)

\* the question appended last: the template drawn after the warm-ups
FinalQuestion(v, ts) == Format(user_templates[ts[WarmUps + 1]], v)

\* messages as built by process_one before the model call
BuildMessages(v, ts) ==
  <<Msg("system", system_message)>> \o WarmUpMessages(v, ts, 1)
     \o <<Msg("user", FinalQuestion(v, ts))>>

\* variant: the chain stored with its trailing whitespace removed
Strip(c) ==
  IF c = "<thoughts> t <actions> [] <values> v\n"
  THEN "<thoughts> t <actions> [] <values> v" ELSE c

RecordStripped(final_question, chain) ==
  [task |-> "QA", user |-> final_question, chain |-> Strip(chain)]

\* the dictionary process_one returns
Record(final_question, chain) ==
  [task |-> "QA", user |-> final_question, chain |-> chain]

\* variant: the record inserted at the front
CollectFront(res, rec) == <<rec>> \o res

\* variant: the record replacing the list
CollectOnly(res, rec) == <<rec>>

\* results.append(record)
Collect(res, rec) == Append(res, rec)

\* variant: the loop one iteration short
LoopContinuesShort(k, n) == k < n - 1

\* for _ in range(total_num): another iteration follows k completed ones
LoopContinues(k, n) == k < n

\* variant: only an unset variable counts as missing
KeyMissingOnlyNone(k) == k = None

\* not openai.api_key
KeyMissing(k) == k = None \/ k = ""

----------------------------------------------------------------------------
(* State *)

VARIABLES
  pc,          \* "start" | "loop" | "call" | "done" | "halted"
  api_key,     \* value of OPENAI_API_KEY in the environment
  total_num,   \* the --total_num argument
  iter,        \* iterations of main's loop completed
  results,     \* main's results list
  vars,        \* process_one's sampled variables (<<>> outside process_one)
  messages,    \* process_one's message list (<<>> outside process_one)
  tries,       \* the retry decorator's remaining tries (_tries)
  delay,       \* the retry decorator's next delay (_delay)
  attempts,    \* outcomes of the endpoint calls of the latest wrapper invocation
  sleeps,      \* delays slept by the latest wrapper invocation
  nsampled,    \* number of sample_vars() calls so far
  ncalls,      \* number of call_gpt4o invocations so far
  error,       \* exception that escaped main, or "none"
  fileWrites,  \* number of times the output file was opened and written
  output       \* content written to the output file

vars_ == <<pc, api_key, total_num, iter, results, vars, messages, tries, delay,
           attempts, sleeps, nsampled, ncalls, error, fileWrites, output>>

Init ==
  /\ pc = "start"
  /\ api_key \in Credentials
  /\ total_num \in -1..MaxTotal
  /\ iter = 0
  /\ results = <<>>
  /\ vars = <<>>
  /\ messages = <<>>
  /\ tries = 0
  /\ delay = 0
  /\ attempts = <<>>
  /\ sleeps = <<>>
  /\ nsampled = 0
  /\ ncalls = 0
  /\ error = "none"
  /\ fileWrites = 0
  /\ output = <<>>

----------------------------------------------------------------------------
(* Actions *)

\* main, lines 90-94: read the credential, raise if missing, else results = []
MainStart ==
  /\ pc = "start"
  /\ IF KeyMissing(api_key)
     THEN /\ pc' = "halted"
          /\ error' = "RuntimeError"
     ELSE /\ pc' = "loop"
          /\ error' = error
  /\ UNCHANGED <<api_key, total_num, iter, results, vars, messages, tries, delay,
                 attempts, sleeps, nsampled, ncalls, fileWrites, output>>

\* main line 95-96 entering process_one, lines 64-80: sample, build the
\* messages, enter call_gpt4o (the decorator sets _tries, _delay)
ProcessOne ==
  /\ pc = "loop"
  /\ LoopContinues(iter, total_num)
  /\ \E v \in sample_vars, ts \in [1..(WarmUps + 1) -> 1..Len(user_templates)] :
        /\ vars' = v
        /\ messages' = BuildMessages(v, ts)
  /\ nsampled' = nsampled + 1
  /\ ncalls' = ncalls + 1
  /\ tries' = Tries
  /\ delay' = Delay
  /\ attempts' = <<>>
  /\ sleeps' = <<>>
  /\ pc' = "call"
  /\ UNCHANGED <<api_key, total_num, iter, results, error, fileWrites, output>>

\* one attempt whose endpoint call returns: call_gpt4o returns the content,
\* process_one returns the record, main appends it
AttemptOk ==
  /\ pc = "call"
  /\ \E text \in Texts :
        /\ attempts' = Append(attempts, [ok |-> TRUE, val |-> text])
        /\ results' = Collect(results, Record(messages[Len(messages)].content, text))
  /\ iter' = iter + 1
  /\ vars' = <<>>
  /\ messages' = <<>>
  /\ pc' = "loop"
  /\ UNCHANGED <<api_key, total_num, tries, delay, sleeps, nsampled, ncalls,
                 error, fileWrites, output>>

\* one attempt whose endpoint call raises e: a retried exception consumes a
\* try and is re-raised when none is left, else the wrapper sleeps _delay and
\* multiplies it by backoff; any other exception leaves the wrapper at once.
\* An exception leaving the wrapper is caught nowhere and ends the run.
AttemptFail ==
  /\ pc = "call"
  /\ \E e \in EndpointErrors :
        /\ attempts' = Append(attempts, [ok |-> FALSE, val |-> e])
        /\ IF e \in RetriedErrors /\ tries - 1 # 0
           THEN /\ tries' = tries - 1
                /\ sleeps' = Append(sleeps, delay)
                /\ delay' = delay * Backoff
                /\ UNCHANGED <<pc, error, vars, messages>>
           ELSE /\ tries' = IF e \in RetriedErrors THEN tries - 1 ELSE tries
                /\ pc' = "halted"
                /\ error' = e
                /\ vars' = <<>>
                /\ messages' = <<>>
                /\ UNCHANGED <<sleeps, delay>>
  /\ UNCHANGED <<api_key, total_num, iter, results, nsampled, ncalls,
                 fileWrites, output>>

\* main lines 99-100: the loop is over, write results to the output file
WriteOutput ==
  /\ pc = "loop"
  /\ ~LoopContinues(iter, total_num)
  /\ fileWrites' = fileWrites + 1
  /\ output' = results
  /\ pc' = "done"
  /\ UNCHANGED <<api_key, total_num, iter, results, vars, messages, tries, delay,
                 attempts, sleeps, nsampled, ncalls, error>>

Next ==
  \/ MainStart
  \/ ProcessOne
  \/ AttemptOk
  \/ AttemptFail
  \/ WriteOutput

Spec == Init /\ [][Next]_vars_

----------------------------------------------------------------------------
(* Helpers of the properties *)

Last(s) == s[Len(s)]

IsPrefix(s, t) == Len(s) <= Len(t) /\ SubSeq(t, 1, Len(s)) = s

Failed(a) == ~a.ok

DiseasePool == {"diabetes", "hypertension", "COPD"}
DrugPool == {"aspirin", "metformin", "lisinopril"}
ConditionPool == {"heart failure", "asthma", "chronic kidney disease"}

\* the questions the templates allow, written out pool by pool
PoolQuestions ==
  {<<"What are the primary risk factors for ", d, "?">> : d \in DiseasePool}
  \cup {<<"How does ", g, " work to treat ", c, "?">> : g \in DrugPool, c \in ConditionPool}
  \cup {<<"What is the long-term prognosis of a patient with ", c, "?">> : c \in ConditionPool}

\* the assistant answer-template message quoting question q
Quoting(q) ==
  <<"Question: ">> \o q
  \o <<"\n\nAnswer:\n\n<thoughts> I will search PubMed via PMC-LLaMA to gather authoritative sources.\n\n<actions> [{'tool name':'PMC-LLaMA','tool params':{'query':'">>
  \o q \o <<"'}}]\n\n<values> ", "...", "\n">>

----------------------------------------------------------------------------
(* Properties *)

\* C1: in one invocation of call_gpt4o, two failed attempts followed by a
\* successful third make the wrapper return the third attempt's text with no
\* error reaching the caller; three failed attempts make the third attempt's
\* error reach main, which halts the run.
C1_RetryOutcome ==
  /\ (Len(attempts) = 3 /\ Failed(attempts[1]) /\ Failed(attempts[2]) /\ attempts[3].ok)
        => /\ pc \in {"loop", "done"}
           /\ error = "none"
           /\ results # <<>>
           /\ Last(results).chain = attempts[3].val
  /\ (Len(attempts) = 3 /\ \A k \in 1..3 : Failed(attempts[k]))
        => /\ pc = "halted"
           /\ error = attempts[3].val

C1_Witness ==
  /\ pc = "loop"
  /\ Len(attempts) = 3
  /\ Failed(attempts[1]) /\ Failed(attempts[2]) /\ attempts[3].ok

C1_WitnessExhausted ==
  /\ pc = "halted"
  /\ Len(attempts) = 3
  /\ \A k \in 1..3 : Failed(attempts[k])

\* C2: a run that ends with an error never writes the output file, however
\* many records were already built; the file is written at most once, and
\* only when all total_num items have been built.
C2_NoPartialOutput ==
  /\ fileWrites <= 1
  /\ error # "none" => fileWrites = 0 /\ output = <<>>
  /\ pc = "halted" => error # "none"
  /\ fileWrites = 1 =>
        /\ pc = "done"
        /\ error = "none"
        /\ Len(results) = (IF total_num > 0 THEN total_num ELSE 0)
        /\ output = results

C2_Witness ==
  /\ pc = "halted"
  /\ Len(results) >= 1
  /\ error \in EndpointErrors
  /\ fileWrites = 0

\* C3: when main runs to completion with total_num >= 0, the collection
\* written to the output file has exactly total_num records.
C3_OutputLength ==
  (pc = "done" /\ total_num >= 0) => (fileWrites = 1 /\ Len(output) = total_num)

C3_Witness ==
  /\ pc = "done"
  /\ total_num = MaxTotal
  /\ Len(output) = MaxTotal

\* C4: with OPENAI_API_KEY absent or empty, main raises the configuration
\* error before anything else happens: nothing is sampled, no model call is
\* attempted, no record is built, no output is written.
C4_MissingCredential ==
  (api_key \in {None, ""} /\ pc # "start") =>
     /\ pc = "halted"
     /\ error = "RuntimeError"
     /\ nsampled = 0
     /\ ncalls = 0
     /\ attempts = <<>>
     /\ sleeps = <<>>
     /\ results = <<>>
     /\ fileWrites = 0
     /\ output = <<>>

C4_Witness ==
  /\ api_key = ""
  /\ pc = "halted"
  /\ error = "RuntimeError"

\* C5: the wrapper makes at most 3 attempts per invocation; it waits 2 after
\* the first failed attempt and 4 after the second, waits only between
\* attempts, and does not wait after the final failed attempt.
C5_Backoff ==
  /\ Len(attempts) <= 3
  /\ IsPrefix(sleeps, <<2, 4>>)
  /\ pc = "call" => Len(sleeps) = Len(attempts)
  /\ (pc # "call" /\ attempts # <<>>) => Len(sleeps) = Len(attempts) - 1

C5_Witness ==
  /\ pc = "halted"
  /\ Len(attempts) = 3
  /\ sleeps = <<2, 4>>

\* C6: every question process_one produces (the 3 warm-ups and the final
\* one) and every record's user field is a template whose placeholders are
\* filled from their pools.
C6_PoolQuestions ==
  /\ \A k \in 1..Len(messages) :
        messages[k].role = "user" => messages[k].content \in PoolQuestions
  /\ \A k \in 1..Len(results) : results[k].user \in PoolQuestions
  /\ \A k \in 1..Len(output) : output[k].user \in PoolQuestions

C6_Witness ==
  /\ pc = "call"
  /\ Len(messages) = 8
  /\ messages[2].content = <<"How does ", "metformin", " work to treat ", "asthma", "?">>
  /\ results # <<>>

\* C7: the record process_one returns has task "QA", the final question sent
\* to the model as user, and the text of the successful call, unmodified, as
\* chain.
C7_RecordVerbatim ==
  [][(pc = "call" /\ pc' = "loop") =>
        /\ Last(attempts').ok
        /\ results' = Append(results,
                             [task |-> "QA",
                              user |-> Last(messages).content,
                              chain |-> Last(attempts').val])]_vars_

C7_Witness ==
  /\ pc = "loop"
  /\ results # <<>>
  /\ Last(attempts).val = "<thoughts> t <actions> [] <values> v\n"
  /\ Last(results).chain = "<thoughts> t <actions> [] <values> v\n"

\* C8: the messages sent for an item are one system message, 3 warm-up
\* exchanges (a user question, then the assistant template quoting it), and
\* one final user question; the 4 questions are filled from the one sample
\* taken for the item, and call_gpt4o is invoked once per item.
C8_MessageShape ==
  /\ pc = "call" =>
        /\ Len(messages) = 8
        /\ messages[1] = [role |-> "system", content |-> system_message]
        /\ \A k \in 1..3 :
              /\ messages[2 * k].role = "user"
              /\ messages[2 * k + 1].role = "assistant"
              /\ messages[2 * k + 1].content = Quoting(messages[2 * k].content)
        /\ messages[8].role = "user"
        /\ \A k \in 1..4 :
              \E j \in 1..3 : messages[2 * k].content = Format(user_templates[j], vars)
        /\ nsampled = iter + 1
        /\ ncalls = iter + 1
  /\ pc \in {"loop", "done"} => nsampled = iter /\ ncalls = iter

C8_Witness ==
  /\ pc = "call"
  /\ iter = 1
  /\ Len(messages) = 8
  /\ messages[2].content # messages[4].content
  /\ messages[8].content # messages[6].content

\* C9: items are processed one after the other: a model call starts only
\* when the previous item's call has returned and its record is in results,
\* no attempt or wait happens outside the one call in progress, and records
\* are appended in processing order.
C9_Sequential ==
  [][/\ ncalls' # ncalls =>
          /\ pc = "loop"
          /\ ncalls' = ncalls + 1
          /\ Len(results) = ncalls
          /\ (ncalls > 0 => Last(attempts).ok)
     /\ (attempts' # attempts \/ sleeps' # sleeps) =>
          (pc = "call" \/ ncalls' = ncalls + 1)
     /\ pc = "call" => ncalls = Len(results) + 1
     /\ results' # results =>
          /\ pc = "call"
          /\ Len(results') = Len(results) + 1
          /\ SubSeq(results', 1, Len(results)) = results]_vars_

C9_Witness ==
  /\ pc = "call"
  /\ Len(results) = 1
  /\ ncalls = 2
  /\ Len(attempts) = 2
  /\ sleeps = <<2, 4>>

\* C10: an endpoint error other than the rate-limit error is never retried:
\* it is the last attempt of the invocation, no wait follows it, it reaches
\* the caller as is, and the run halts with no output written.
C10_OnlyRateLimitRetried ==
  \A k \in 1..Len(attempts) :
     (Failed(attempts[k]) /\ attempts[k].val # "RateLimitError") =>
        /\ k = Len(attempts)
        /\ Len(sleeps) = k - 1
        /\ pc = "halted"
        /\ error = attempts[k].val
        /\ fileWrites = 0
        /\ output = <<>>

C10_Witness ==
  /\ pc = "halted"
  /\ Len(attempts) = 2
  /\ attempts[1].val = "RateLimitError"
  /\ attempts[2].val = "APIError"
  /\ error = "APIError"

====
